---- MODULE Spec2Model ----
(***************************************************************************)
(* Model of DataProvider/python/transform.py: the flip augmentation and    *)
(* its reversal (flip, revert_flip), the affinity graphs (affinitize,      *)
(* affinitize1) and the loss rebalancing (rebalance_class,                 *)
(* rebalance_binary_class).                                                *)
(*                                                                         *)
(* A numpy array is a record [base, shape, at]: `base` is the memory it    *)
(* reads and writes (a function from the positions of the allocation to    *)
(* values), `shape` its 4-D shape <<C, Z, Y, X>> and `at` the map from its *)
(* own positions to positions of `base` (`inv` is its inverse: every view  *)
(* here reads the whole base).  Basic slicing and transpose return views   *)
(* (same base, other `at`); an assignment through a view writes the base.  *)
(* A 3-D volume is the tensor with C = 1.  Positions are 0-based tuples    *)
(* <<c, z, y, x>>.  Booleans stored in a float array are 1 and 0.  Real    *)
(* weights are exact fractions <<numerator, denominator>>.                 *)
(*                                                                         *)
(* The state keeps of an array that owns its memory the contents [shape,   *)
(* val] and of a view of another array the maps [shape, at, inv].          *)
(***************************************************************************)
EXTENDS Integers, Sequences, FiniteSets, TLC

VARIABLES
  pc,      \* where the caller is
  img,     \* the caller's label volume (or tensor): its contents
  rule,    \* the flip rule
  dst,     \* the offset <<dz, dy, dx>>, or None
  msk,     \* the mask of the rebalancing, or Nil
  base_w,  \* the base weight of the binary rebalancing
  aug,     \* flip(img, rule): a view of img
  tns,     \* the caller's tensor handed to revert_flip: its contents
  tns0,    \* what tns held when revert_flip was called
  ret,     \* what the array the operation returned holds
  ref,     \* what the array a second operation returned holds
  err      \* the error raised, or "none"

vars == <<pc, img, rule, dst, msk, base_w, aug, tns, tns0, ret, ref, err>>

----------------------------------------------------------------------------
(* Bounds of the inputs. *)

MaxC == 2
MaxZ == 2
MaxY == 3
MaxX == 3
MaxLabel == 2
MaxPaint == 2
MaxPaintAug == 1
MaxOff == 2

----------------------------------------------------------------------------
(* Arrays. *)

None == <<>>

\* No array.
Nil == [shape |-> <<0, 0, 0, 0>>]

Abs(n) == IF n < 0 THEN -n ELSE n

Pos(sh) ==
  (0..(sh[1] - 1)) \X (0..(sh[2] - 1)) \X (0..(sh[3] - 1)) \X (0..(sh[4] - 1))

\* A freshly allocated array holding the values val (np.zeros and the like).
NewArray(sh, val) ==
  [base |-> val, shape |-> sh,
   at |-> [p \in Pos(sh) |-> p], inv |-> [b \in Pos(sh) |-> b]]

\* The values of an array, read through its view.
Read(a) == [p \in Pos(a.shape) |-> a.base[a.at[p]]]

\* What a caller can observe of an array: its shape and its values.
Contents(a) == [shape |-> a.shape, val |-> Read(a)]

\* The array that owns a memory holding the contents c.
Own(c) == NewArray(c.shape, c.val)

\* The view an array is of its memory, and the array a view is of a memory.
View(a) == [shape |-> a.shape, at |-> a.at, inv |-> a.inv]
Bind(v, mem) == [base |-> mem, shape |-> v.shape, at |-> v.at, inv |-> v.inv]

\* data[..., ::-1, ...] along tuple index ax (2 = z, 3 = y, 4 = x): a view.
Reflect(a, ax) ==
  LET mirror(p) == [p EXCEPT ![ax] = a.shape[ax] - 1 - p[ax]]
  IN  [a EXCEPT !.at = [p \in Pos(a.shape) |-> a.at[mirror(p)]],
                !.inv = [b \in DOMAIN a.base |-> mirror(a.inv[b])]]

\* data.transpose(0,1,3,2): a view with the y and x extents exchanged.
TransposeXY(a) ==
  LET sh == <<a.shape[1], a.shape[2], a.shape[4], a.shape[3]>>
      swap(p) == <<p[1], p[2], p[4], p[3]>>
  IN  [base |-> a.base, shape |-> sh,
       at |-> [p \in Pos(sh) |-> a.at[swap(p)]],
       inv |-> [b \in DOMAIN a.base |-> swap(a.inv[b])]]

\* a[region] = src: the right-hand side src has been read before the write
\* (numpy copies an overlapping source), and the write lands in the base.
SetItem(a, region, src) ==
  [a EXCEPT !.base =
     [b \in DOMAIN a.base |->
        IF a.inv[b] \in region THEN src[a.inv[b]] ELSE a.base[b]]]

----------------------------------------------------------------------------
(* Data augmentation. *)

\* rule = <<z reflection, y reflection, x reflection, xy transpose>>
flip(data, r) ==
  LET d1 == IF r[1] THEN Reflect(data, 2) ELSE data
      d2 == IF r[2] THEN Reflect(d1, 3) ELSE d1
      d3 == IF r[3] THEN Reflect(d2, 4) ELSE d2
      d4 == IF r[4] THEN TransposeXY(d3) ELSE d3
  IN  d4

\* data[[0,1],...] = data[[1,0],...]
SwapXY(data) ==
  LET old == Read(data)
      region == {p \in Pos(data.shape) : p[1] \in {0, 1}}
  IN  SetItem(data, region, [p \in region |-> old[[p EXCEPT ![1] = 1 - p[1]]]])

\* ShiftAffinity without the fill(0) of the vacated slab.
ShiftAffinityNoFill(data, ch, ax, d) ==
  LET n == data.shape[ax]
      a == Abs(d)
      old == Read(data)
      chan == {p \in Pos(data.shape) : p[1] = ch}
      moved == IF d > 0 THEN {p \in chan : p[ax] >= a}
                        ELSE {p \in chan : p[ax] < n - a}
      from(p) == IF d > 0 THEN [p EXCEPT ![ax] = p[ax] - a]
                          ELSE [p EXCEPT ![ax] = p[ax] + a]
  IN  SetItem(data, moved, [p \in moved |-> old[from(p)]])

\* The special treatment of channel ch after the reflection of axis ax:
\*   d > 0:  data[ch, d:] = data[ch, :-d];  data[ch, :d].fill(0)
\*   else :  d = abs(d); data[ch, :-d] = data[ch, d:]; data[ch, -d:].fill(0)
ShiftAffinity(data, ch, ax, d) ==
  LET n == data.shape[ax]
      a == Abs(d)
      old == Read(data)
      chan == {p \in Pos(data.shape) : p[1] = ch}
      moved == IF d > 0 THEN {p \in chan : p[ax] >= a}
                        ELSE {p \in chan : p[ax] < n - a}
      from(p) == IF d > 0 THEN [p EXCEPT ![ax] = p[ax] - a]
                          ELSE [p EXCEPT ![ax] = p[ax] + a]
      zeroed == IF d > 0 THEN {p \in chan : p[ax] < a}
                         ELSE {p \in chan : p[ax] >= n - a}
      d1 == SetItem(data, moved, [p \in moved |-> old[from(p)]])
  IN  SetItem(d1, zeroed, [p \in zeroed |-> 0])

\* The assertions on the offset, against the shape of the array passed in.
RevertAsserts(data, o) ==
  /\ data.shape[1] = 3
  /\ o[3] # 0 /\ Abs(o[3]) < data.shape[4]
  /\ o[2] # 0 /\ Abs(o[2]) < data.shape[3]
  /\ o[1] # 0 /\ Abs(o[1]) < data.shape[2]

\* revert_flip undoing the steps in the order flip applied them (z, y, x,
\* transpose) instead of the reverse order.
revert_flip_SameOrder(data, r, o) ==
  LET is_affinity == o # None
  IN  IF is_affinity /\ ~RevertAsserts(data, o)
      THEN [err |-> "AssertionError", data |-> data]
      ELSE
        LET z1 == IF r[1] THEN Reflect(data, 2) ELSE data
            z2 == IF r[1] /\ is_affinity THEN ShiftAffinity(z1, 2, 2, o[1]) ELSE z1
            y1 == IF r[2] THEN Reflect(z2, 3) ELSE z2
            y2 == IF r[2] /\ is_affinity THEN ShiftAffinity(y1, 1, 3, o[2]) ELSE y1
            x1 == IF r[3] THEN Reflect(y2, 4) ELSE y2
            x2 == IF r[3] /\ is_affinity THEN ShiftAffinity(x1, 0, 4, o[3]) ELSE x1
            t1 == IF r[4] THEN TransposeXY(x2) ELSE x2
            t2 == IF r[4] /\ is_affinity THEN SwapXY(t1) ELSE t1
        IN  [err |-> "none", data |-> t2]

revert_flip(data, r, o) ==
  LET is_affinity == o # None
  IN  IF is_affinity /\ ~RevertAsserts(data, o)
      THEN [err |-> "AssertionError", data |-> data]
      ELSE
        LET t1 == IF r[4] THEN TransposeXY(data) ELSE data
            t2 == IF r[4] /\ is_affinity THEN SwapXY(t1) ELSE t1
            x1 == IF r[3] THEN Reflect(t2, 4) ELSE t2
            x2 == IF r[3] /\ is_affinity THEN ShiftAffinity(x1, 0, 4, o[3]) ELSE x1
            y1 == IF r[2] THEN Reflect(x2, 3) ELSE x2
            y2 == IF r[2] /\ is_affinity THEN ShiftAffinity(y1, 1, 3, o[2]) ELSE y1
            z1 == IF r[1] THEN Reflect(y2, 2) ELSE y2
            z2 == IF r[1] /\ is_affinity THEN ShiftAffinity(z1, 2, 2, o[1]) ELSE z1
        IN  [err |-> "none", data |-> z2]

----------------------------------------------------------------------------
(* Label transformations. *)

\* SameSeg without the test for background: (img[s1] == img[s2]).
SameLabel(a, b) == IF a = b THEN 1 ELSE 0

\* (img[s1] == img[s2]) & (img[s1] > 0), stored in a float array
SameSeg(a, b) == IF a = b /\ a > 0 THEN 1 ELSE 0

\* AxisAffinity without the branch for a negative offset: abs(d) is used in
\* the slices of the positive branch.
AxisAffinityUnsigned(v, sh, ax, d, q) ==
  LET a == Abs(d)
  IN  IF q[ax] >= a
      THEN SameSeg(v[q], v[[q EXCEPT ![ax] = q[ax] - a]])
      ELSE 0

\* The value affinitize leaves at position q = <<0, z, y, x>> of the channel of
\* the axis with tuple index ax, for the offset d along that axis:
\*   d > 0:  ret[ch, d:] = (img[d:] == img[:-d]) & (img[d:] > 0)
\*   else :  d = abs(d); ret[ch, :-d] = (img[d:] == img[:-d]) & (img[d:] > 0)
\* and 0 (np.zeros) where nothing is assigned.
AxisAffinity(v, sh, ax, d, q) ==
  LET n == sh[ax]
      a == Abs(d)
  IN  IF d > 0
      THEN IF q[ax] >= a
           THEN SameSeg(v[q], v[[q EXCEPT ![ax] = q[ax] - a]])
           ELSE 0
      ELSE IF q[ax] < n - a
           THEN SameSeg(v[[q EXCEPT ![ax] = q[ax] + a]], v[q])
           ELSE 0

\* assert dz and abs(dz) < img.shape[-3], and the same for dy and dx
AffinitizeAsserts(sh, o) ==
  /\ o[1] # 0 /\ Abs(o[1]) < sh[2]
  /\ o[2] # 0 /\ Abs(o[2]) < sh[3]
  /\ o[3] # 0 /\ Abs(o[3]) < sh[4]

\* Channel 2 is the z-affinity, 1 the y-affinity, 0 the x-affinity.
affinitize(image, o) ==
  LET v == Read(image)
      sh == <<3, image.shape[2], image.shape[3], image.shape[4]>>
  IN  IF ~AffinitizeAsserts(image.shape, o)
      THEN [err |-> "AssertionError", data |-> Nil]
      ELSE [err |-> "none",
            data |-> NewArray(sh,
              [p \in Pos(sh) |->
                 AxisAffinity(v, image.shape, 4 - p[1], o[3 - p[1]],
                              <<0, p[2], p[3], p[4]>>)])]

\* slice(start, stop); a bound is None or the 1-tuple of an integer.
slice(start, stop) == [start |-> start, stop |-> stop]

\* Python's reading of one slice bound against an axis of n elements.
Clip(i, n) == IF i < 0 THEN (IF i + n < 0 THEN 0 ELSE i + n)
                       ELSE (IF i > n THEN n ELSE i)

Lo(s, n) == IF s.start = None THEN 0 ELSE Clip(s.start[1], n)
Hi(s, n) == IF s.stop = None THEN n ELSE Clip(s.stop[1], n)

\* Slices with the result slice s0 of the positive branch in the negative one.
SlicesSameSide(d) ==
  IF d = 0
  THEN [s0 |-> slice(None, None), s1 |-> slice(None, None),
        s2 |-> slice(None, None)]
  ELSE IF d > 0
  THEN [s0 |-> slice(<<d>>, None), s1 |-> slice(<<d>>, None),
        s2 |-> slice(None, <<-d>>)]
  ELSE [s0 |-> slice(<<-d>>, None), s1 |-> slice(<<-d>>, None),
        s2 |-> slice(None, <<d>>)]

\* The slices affinitize1 appends for one axis with offset d: s0 indexes the
\* result, s1 and s2 the two operands of the comparison.
Slices(d) ==
  IF d = 0
  THEN [s0 |-> slice(None, None), s1 |-> slice(None, None),
        s2 |-> slice(None, None)]
  ELSE IF d > 0
  THEN [s0 |-> slice(<<d>>, None), s1 |-> slice(<<d>>, None),
        s2 |-> slice(None, <<-d>>)]
  ELSE [s0 |-> slice(None, <<d>>), s1 |-> slice(<<-d>>, None),
        s2 |-> slice(None, <<d>>)]

\* The positions of a volume of 4-D shape sh that ret[s0] addresses.
Region1(sh, o) ==
  {p \in Pos(<<1, sh[2], sh[3], sh[4]>>) :
     \A i \in 1..3 : /\ Lo(Slices(o[i]).s0, sh[i + 1]) <= p[i + 1]
                     /\ p[i + 1] < Hi(Slices(o[i]).s0, sh[i + 1])}

\* assert abs(dx) < img.shape[-1], and the same for dy and dz
Affinitize1Asserts(sh, o) ==
  /\ Abs(o[3]) < sh[4]
  /\ Abs(o[2]) < sh[3]
  /\ Abs(o[1]) < sh[2]

\* ret[s0] = (img[s1] == img[s2]) & (img[s1] > 0); returns ret[np.newaxis,...]
affinitize1(image, o) ==
  LET v == Read(image)
      sh == <<1, image.shape[2], image.shape[3], image.shape[4]>>
      lo(i, k) == LET sl == Slices(o[i])
                  IN  Lo(IF k = 0 THEN sl.s0 ELSE IF k = 1 THEN sl.s1 ELSE sl.s2,
                         sh[i + 1])
      \* the element of operand k that meets position p of ret[s0]
      opnd(p, k) == <<0, lo(1, k) + (p[2] - lo(1, 0)),
                         lo(2, k) + (p[3] - lo(2, 0)),
                         lo(3, k) + (p[4] - lo(3, 0))>>
  IN  IF ~Affinitize1Asserts(image.shape, o)
      THEN [err |-> "AssertionError", data |-> Nil]
      ELSE [err |-> "none",
            data |-> NewArray(sh,
              [p \in Pos(sh) |->
                 IF p \in Region1(sh, o)
                 THEN SameSeg(v[opnd(p, 1)], v[opnd(p, 2)])
                 ELSE 0])]

----------------------------------------------------------------------------
(* Rebalancing.  Weights are exact fractions <<n, d>> in lowest terms. *)

RECURSIVE GCD(_, _)
GCD(a, b) == IF b = 0 THEN a ELSE GCD(b, a % b)

Frac(n, d) == LET g == GCD(n, d) IN <<n \div g, d \div g>>
RAdd(a, b) == Frac(a[1] * b[2] + b[1] * a[2], a[2] * b[2])
RMul(a, b) == Frac(a[1] * b[1], a[2] * b[2])
RDiv(a, b) == Frac(a[1] * b[2], a[2] * b[1])

RECURSIVE RSum(_, _)
\* The sum of the fractions w[l] over l in S.
RSum(S, w) ==
  IF S = {} THEN <<0, 1>>
  ELSE LET l == CHOOSE l \in S : TRUE IN RAdd(w[l], RSum(S \ {l}, w))

\* The positions a mask selects (msk > 0); all of them without a mask.
Selected(sh, mask) ==
  IF mask = Nil THEN Pos(sh) ELSE {p \in Pos(sh) : Read(mask)[p] > 0}

\* rebalance_class without the division by the sum of the inverse counts.
rebalance_class_Unnormalized(image, mask) ==
  LET v == Read(image)
      masked == Selected(image.shape, mask)
      unique_lbl == {v[p] : p \in masked}
      num_lbls == [l \in unique_lbl |-> Cardinality({p \in masked : v[p] = l})]
      weights == [l \in unique_lbl |-> Frac(1, num_lbls[l])]
  IN  IF unique_lbl = {}
      THEN [err |-> "AssertionError", data |-> Nil]
      ELSE [err |-> "none",
            data |-> NewArray(image.shape,
              IF Cardinality(unique_lbl) = 1
              THEN [p \in Pos(image.shape) |-> <<1, 2>>]
              ELSE [p \in Pos(image.shape) |->
                      IF v[p] \in unique_lbl THEN weights[v[p]] ELSE <<0, 1>>])]

rebalance_class(image, mask) ==
  LET v == Read(image)
      masked == Selected(image.shape, mask)
      unique_lbl == {v[p] : p \in masked}
      num_lbls == [l \in unique_lbl |-> Cardinality({p \in masked : v[p] = l})]
      inverse == [l \in unique_lbl |-> Frac(1, num_lbls[l])]
      weights == [l \in unique_lbl |-> RDiv(inverse[l], RSum(unique_lbl, inverse))]
  IN  IF unique_lbl = {}
      THEN [err |-> "AssertionError", data |-> Nil]
      ELSE [err |-> "none",
            data |-> NewArray(image.shape,
              IF Cardinality(unique_lbl) = 1
              THEN [p \in Pos(image.shape) |-> <<1, 2>>]
              ELSE [p \in Pos(image.shape) |->
                      IF v[p] \in unique_lbl THEN weights[v[p]] ELSE <<0, 1>>])]

\* rebalance_binary_class with the two weights exchanged.
rebalance_binary_class_Swapped(image, mask, base) ==
  LET v == Read(image)
      inmask == Selected(image.shape, mask)
      idx == {p \in inmask : v[p] > 0}
      total == Cardinality(inmask)
      count == Cardinality(idx)
      balanced == count > 0 /\ total - count > 0
      sum == RAdd(Frac(1, count), Frac(1, total - count))
      weight0 == IF balanced THEN RDiv(Frac(1, count), sum) ELSE base
      weight1 == IF balanced THEN RDiv(Frac(1, total - count), sum) ELSE base
  IN  [err |-> "none",
       data |-> NewArray(image.shape,
         [p \in Pos(image.shape) |->
            IF p \in idx THEN weight1
            ELSE IF p \in inmask THEN weight0
            ELSE <<0, 1>>])]

rebalance_binary_class(image, mask, base) ==
  LET v == Read(image)
      inmask == Selected(image.shape, mask)
      idx == {p \in inmask : v[p] > 0}
      total == Cardinality(inmask)
      count == Cardinality(idx)
      balanced == count > 0 /\ total - count > 0
      sum == RAdd(Frac(1, count), Frac(1, total - count))
      weight0 == IF balanced THEN RDiv(Frac(1, count), sum) ELSE base
      weight1 == IF balanced THEN RDiv(Frac(1, total - count), sum) ELSE base
  IN  [err |-> "none",
       data |-> NewArray(image.shape,
         [p \in Pos(image.shape) |->
            IF p \in idx THEN weight0
            ELSE IF p \in inmask THEN weight1
            ELSE <<0, 1>>])]

----------------------------------------------------------------------------
(* Inputs. *)

Labels == 0..MaxLabel

Offsets == {<<dz, dy, dx>> : dz \in -MaxOff..MaxOff, dy \in -MaxOff..MaxOff,
                             dx \in -MaxOff..MaxOff}

\* The offset is nonzero and smaller than the extent on every spatial axis
\* of the 4-D shape sh.
ValidOffset(sh, o) ==
  \A i \in 1..3 : o[i] # 0 /\ Abs(o[i]) < sh[i + 1]

Rules == {<<a, b, c, d>> : a \in BOOLEAN, b \in BOOLEAN, c \in BOOLEAN, d \in BOOLEAN}

Shapes(C) == {<<c, z, y, x>> : c \in C, z \in 2..MaxZ, y \in 2..MaxY, x \in 2..MaxX}

RECURSIVE Painted(_, _, _)
\* The arrays of shape sh that hold one value everywhere but at k positions at most.
Painted(sh, vals, k) ==
  IF k = 0 THEN {[p \in Pos(sh) |-> f] : f \in vals}
  ELSE LET prev == Painted(sh, vals, k - 1)
       IN  prev \cup {[v EXCEPT ![p] = l] : v \in prev, p \in Pos(sh), l \in vals}

\* The place of position p in the memory of an array of shape sh (C order).
Lin(sh, p) == p[4] + sh[4] * (p[3] + sh[3] * (p[2] + sh[2] * p[1]))

\* The arrays of shape sh whose labels step up along the memory: label l
\* starts at some place c[l], the places before c[1] holding 0.
Stairs(sh) ==
  LET n == sh[1] * sh[2] * sh[3] * sh[4]
  IN  {[p \in Pos(sh) |-> Cardinality({l \in 1..MaxLabel : c[l] <= Lin(sh, p)})] :
         c \in [1..MaxLabel -> 0..n]}

BaseWeights == {<<0, 1>>, <<1, 2>>}

\* np.arange(1, n+1).reshape(sh): every position holds its own number.
Arange(sh) == [p \in Pos(sh) |-> 1 + Lin(sh, p)]


----------------------------------------------------------------------------
(* flip and its reversal without offset. *)

InitFlip ==
  /\ pc = "start"
  /\ \E sh \in Shapes(1..MaxC) :
       \E v \in Painted(sh, Labels, MaxPaintAug) \cup {Arange(sh)} :
         img = [shape |-> sh, val |-> v]
  /\ rule \in Rules
  /\ dst = None
  /\ msk = Nil /\ base_w = <<0, 1>>
  /\ aug = Nil /\ tns = Nil /\ tns0 = Nil /\ ret = Nil /\ ref = Nil
  /\ err = "none"

\* aug = flip(img, rule)
Flip ==
  /\ pc = "start"
  /\ aug' = View(flip(Own(img), rule))
  /\ pc' = "flipped"
  /\ UNCHANGED <<img, rule, dst, msk, base_w, tns, tns0, ret, ref, err>>

\* ret = revert_flip(aug, rule)
RevertPlain ==
  /\ pc = "flipped"
  /\ \E r \in {revert_flip(Bind(aug, img.val), rule, None)} :
         /\ ret' = Contents(r.data)
         /\ img' = [img EXCEPT !.val = r.data.base]
         /\ err' = r.err
  /\ pc' = "reverted"
  /\ UNCHANGED <<rule, dst, msk, base_w, aug, tns, tns0, ref>>

NextFlip == Flip \/ RevertPlain

SpecFlip == InitFlip /\ [][NextFlip]_vars

\* C1: reverting, with no offset, what flip produced under the same rule gives
\* back the tensor, voxel for voxel and channel for channel.
C1_RoundTrip ==
  pc = "reverted" => /\ err = "none"
                     /\ ret = img

C1_Witness ==
  /\ pc = "reverted"
  /\ rule = <<TRUE, TRUE, TRUE, TRUE>>
  /\ img.shape[1] = 2 /\ img.shape[3] # img.shape[4]
  /\ Contents(Bind(aug, img.val)) # img
  /\ ret = img

----------------------------------------------------------------------------
(* The affinity graph of a volume, augmented and restored. *)

InitAug ==
  /\ pc = "start"
  /\ \E sh \in Shapes({1}) :
       \E v \in Painted(sh, Labels, MaxPaintAug) : img = [shape |-> sh, val |-> v]
  /\ rule \in Rules
  /\ dst \in {o \in Offsets : ValidOffset(img.shape, o)}
  /\ msk = Nil /\ base_w = <<0, 1>>
  /\ aug = Nil /\ tns = Nil /\ tns0 = Nil /\ ret = Nil /\ ref = Nil
  /\ err = "none"

\* tns = affinitize(aug, dst)
Affinitize ==
  /\ pc = "flipped"
  /\ dst # None
  /\ \E r \in {affinitize(Bind(aug, img.val), dst)} :
         /\ tns' = IF r.err = "none" THEN Contents(r.data) ELSE Nil
         /\ err' = r.err
         /\ pc' = IF r.err = "none" THEN "derived" ELSE "failed"
  /\ UNCHANGED <<img, rule, dst, msk, base_w, aug, tns0, ret, ref>>

\* ret = revert_flip(tns, rule, dst); tns is the caller's array, and the
\* array returned is a view of its memory.
Revert ==
  /\ pc = "derived"
  /\ tns0' = tns
  /\ \E r \in {revert_flip(Own(tns), rule, dst)} :
         /\ ret' = IF r.err = "none" THEN Contents(r.data) ELSE Nil
         /\ tns' = [tns EXCEPT !.val = r.data.base]
         /\ err' = r.err
         /\ pc' = IF r.err = "none" THEN "reverted" ELSE "failed"
  /\ UNCHANGED <<img, rule, dst, msk, base_w, aug, ref>>

\* ref = affinitize(img, dst)
AffinitizeOriginal ==
  /\ pc = "reverted"
  /\ \E r \in {affinitize(Own(img), dst)} :
         /\ ref' = IF r.err = "none" THEN Contents(r.data) ELSE Nil
         /\ err' = r.err
         /\ pc' = IF r.err = "none" THEN "done" ELSE "failed"
  /\ UNCHANGED <<img, rule, dst, msk, base_w, aug, tns, tns0, ret>>

NextAug == Flip \/ Affinitize \/ Revert \/ AffinitizeOriginal

SpecAug == InitAug /\ [][NextAug]_vars

\* C2 as stated: for every rule and every offset valid for the volume, the
\* reverted affinity of the augmented volume is the affinity of the volume.
C2_AugmentThenDerive ==
  ValidOffset(img.shape, dst) =>
    /\ pc # "failed"
    /\ pc = "done" => ret = ref

\* C2 as amended: the same, for the rules without transpose_xy and, with
\* transpose_xy, for the offsets with dx = dy.
C2_AugmentThenDeriveNoMixedTranspose ==
  (ValidOffset(img.shape, dst) /\ (~rule[4] \/ dst[2] = dst[3])) =>
    /\ pc # "failed"
    /\ pc = "done" => ret = ref

C2_Witness ==
  /\ pc = "done"
  /\ rule = <<TRUE, TRUE, TRUE, TRUE>>
  /\ dst[2] = dst[3] /\ dst[1] < 0 /\ dst[2] > 0
  /\ img.shape[3] # img.shape[4]
  /\ \E p \in Pos(ref.shape) : ref.val[p] = 1
  /\ \E p \in Pos(ref.shape) : ref.val[p] = 0 /\ p[1] = 0
  /\ tns0 # ref
  /\ ret = ref

----------------------------------------------------------------------------
(* revert_flip on a tensor the caller supplies. *)

InitRevert ==
  /\ pc = "derived"
  /\ \E sh \in Shapes({3}) :
       \E v \in Painted(sh, {0, 1}, 0) \cup {Arange(sh)} :
         tns = [shape |-> sh, val |-> v]
  /\ rule \in Rules
  /\ dst \in Offsets
  /\ msk = Nil /\ base_w = <<0, 1>>
  /\ img = Nil /\ aug = Nil /\ tns0 = Nil /\ ret = Nil /\ ref = Nil
  /\ err = "none"

NextRevert == Revert

SpecRevert == InitRevert /\ [][NextRevert]_vars

\* The shape of the volume revert_flip restores from a tensor of shape sh.
Restored(sh, r) == IF r[4] THEN <<sh[1], sh[2], sh[4], sh[3]>> ELSE sh

\* C8: after revert_flip with an offset has returned, the caller's tensor
\* holds what it held before the call.
C8_SourceUnaltered ==
  pc = "reverted" => tns = tns0

\* C9: revert_flip with an offset fails, with no output and no data changed,
\* whenever a component of the offset is zero or not smaller than the extent
\* of the restored volume along the axis it shifts.
C9_OffsetChecked ==
  (pc \in {"reverted", "failed"} /\ ~ValidOffset(Restored(tns.shape, rule), dst))
    => (err = "AssertionError" /\ ret = Nil /\ tns = tns0)

----------------------------------------------------------------------------
(* The affinity graphs of a volume. *)

InitAff ==
  /\ pc = "start"
  /\ \E sh \in Shapes({1}) :
       \E v \in Painted(sh, Labels, MaxPaint) : img = [shape |-> sh, val |-> v]
  /\ rule = <<FALSE, FALSE, FALSE, FALSE>>
  /\ dst \in Offsets
  /\ msk = Nil /\ base_w = <<0, 1>>
  /\ aug = Nil /\ tns = Nil /\ tns0 = Nil /\ ret = Nil /\ ref = Nil
  /\ err = "none"

\* ret = affinitize(img, dst)
AffinitizeVolume ==
  /\ pc = "start"
  /\ \E r \in {affinitize(Own(img), dst)} :
         /\ ret' = IF r.err = "none" THEN Contents(r.data) ELSE Nil
         /\ err' = r.err
         /\ pc' = IF r.err = "none" THEN "affinitized" ELSE "failed"
  /\ UNCHANGED <<img, rule, dst, msk, base_w, aug, tns, tns0, ref>>

NextAff == AffinitizeVolume

SpecAff == InitAff /\ [][NextAff]_vars

\* The voxel of the volume under position p of an affinity tensor, and that
\* voxel moved by k along the axis of the channel of p.
Voxel(p) == <<0, p[2], p[3], p[4]>>
Along(p, k) == [Voxel(p) EXCEPT ![4 - p[1]] = @ + k]
OffsetOf(p, o) == o[3 - p[1]]

\* C3 as stated: channel z->2, y->1, x->0 is 1 exactly where the neighbour at
\* +offset along the axis is inside the volume and carries the same positive
\* label, and 0 elsewhere.
C3_PlusOffset ==
  pc = "affinitized" =>
    \A p \in Pos(ret.shape) :
      LET q == Along(p, OffsetOf(p, dst))
      IN  ret.val[p] = IF /\ q \in Pos(img.shape)
                          /\ img.val[Voxel(p)] = img.val[q]
                          /\ img.val[q] > 0
                       THEN 1 ELSE 0

\* C3 as amended: the same with the neighbour at -offset along the axis.
C3_MinusOffset ==
  pc = "affinitized" =>
    \A p \in Pos(ret.shape) :
      LET q == Along(p, -OffsetOf(p, dst))
      IN  ret.val[p] = IF /\ q \in Pos(img.shape)
                          /\ img.val[Voxel(p)] = img.val[q]
                          /\ img.val[q] > 0
                       THEN 1 ELSE 0

C3_Witness ==
  /\ pc = "affinitized"
  /\ dst = <<-1, 2, -2>>
  /\ \E p \in Pos(ret.shape) : p[1] = 0 /\ ret.val[p] = 1
  /\ \E p \in Pos(ret.shape) : p[1] = 1 /\ ret.val[p] = 1
  /\ \E p \in Pos(ret.shape) :
       /\ p[1] = 2 /\ ret.val[p] = 0
       /\ Along(p, 1) \in Pos(img.shape)
       /\ img.val[Voxel(p)] # img.val[Along(p, 1)]

\* C4: an affinity of 1 is between two voxels of one strictly positive label;
\* a pair with a background voxel gives 0, also when both are background.
C4_BackgroundExcluded ==
  pc = "affinitized" =>
    \A p \in Pos(ret.shape) :
      LET q == Along(p, -OffsetOf(p, dst))
      IN  (q \in Pos(img.shape) /\ (img.val[Voxel(p)] = 0 \/ img.val[q] = 0))
            => ret.val[p] = 0

C4_Witness ==
  /\ pc = "affinitized"
  /\ \E p \in Pos(ret.shape) :
       /\ Along(p, -OffsetOf(p, dst)) \in Pos(img.shape)
       /\ img.val[Voxel(p)] = 0
       /\ img.val[Along(p, -OffsetOf(p, dst))] = 0
       /\ ret.val[p] = 0
  /\ \E p \in Pos(ret.shape) : ret.val[p] = 1

----------------------------------------------------------------------------
(* The single-channel affinity map of a volume, for an offset and its negation. *)

Neg(o) == <<-o[1], -o[2], -o[3]>>

InitAff1 ==
  /\ pc = "start"
  /\ \E sh \in Shapes({1}) :
       \E v \in Painted(sh, Labels, MaxPaint) : img = [shape |-> sh, val |-> v]
  /\ rule = <<FALSE, FALSE, FALSE, FALSE>>
  /\ dst \in {o \in Offsets : Affinitize1Asserts(img.shape, o)}
  /\ msk = Nil /\ base_w = <<0, 1>>
  /\ aug = Nil /\ tns = Nil /\ tns0 = Nil /\ ret = Nil /\ ref = Nil
  /\ err = "none"

\* ret = affinitize1(img, dst)
Affinitize1 ==
  /\ pc = "start"
  /\ \E r \in {affinitize1(Own(img), dst)} :
         /\ ret' = IF r.err = "none" THEN Contents(r.data) ELSE Nil
         /\ err' = r.err
         /\ pc' = IF r.err = "none" THEN "affinitized1" ELSE "failed"
  /\ UNCHANGED <<img, rule, dst, msk, base_w, aug, tns, tns0, ref>>

\* ref = affinitize1(img, -dst)
Affinitize1Negated ==
  /\ pc = "affinitized1"
  /\ \E r \in {affinitize1(Own(img), Neg(dst))} :
         /\ ref' = IF r.err = "none" THEN Contents(r.data) ELSE Nil
         /\ err' = r.err
         /\ pc' = IF r.err = "none" THEN "done" ELSE "failed"
  /\ UNCHANGED <<img, rule, dst, msk, base_w, aug, tns, tns0, ret>>

NextAff1 == Affinitize1 \/ Affinitize1Negated

SpecAff1 == InitAff1 /\ [][NextAff1]_vars

\* The valid region of the map c computed for offset o, as an array of its own:
\* the positions with a shifted neighbour inside the volume, counted from 0.
ValidShape(sh, o) ==
  <<1, sh[2] - Abs(o[1]), sh[3] - Abs(o[2]), sh[4] - Abs(o[3])>>
ValidFrom(sh, o, i) == IF o[i] > 0 THEN o[i] ELSE 0
ValidRegion(c, o) ==
  [p \in Pos(ValidShape(c.shape, o)) |->
     c.val[<<0, p[2] + ValidFrom(c.shape, o, 1), p[3] + ValidFrom(c.shape, o, 2),
                p[4] + ValidFrom(c.shape, o, 3)>>]]

\* The array a reversed along the axes on which o is nonzero.
ReversedAlong(a, sh, o) ==
  [p \in DOMAIN a |->
     a[<<0, IF o[1] # 0 THEN sh[2] - 1 - p[2] ELSE p[2],
            IF o[2] # 0 THEN sh[3] - 1 - p[3] ELSE p[3],
            IF o[3] # 0 THEN sh[4] - 1 - p[4] ELSE p[4]>>]]

\* C5 as stated: the valid region of affinity1(V, o) is the valid region of
\* affinity1(V, -o) reversed along the shifted axes.
C5_SymmetryReversed ==
  pc = "done" =>
    ValidRegion(ret, dst) =
      ReversedAlong(ValidRegion(ref, Neg(dst)), ValidShape(img.shape, dst), dst)

\* C5 as amended: the valid region of affinity1(V, o) is the valid region of
\* affinity1(V, -o), position for position, with no reversal.
C5_SymmetryShifted ==
  pc = "done" => ValidRegion(ret, dst) = ValidRegion(ref, Neg(dst))

C5_Witness ==
  /\ pc = "done"
  /\ dst = <<1, -1, 2>>
  /\ ret # ref
  /\ \E p \in Pos(ret.shape) : ret.val[p] = 1
  /\ \E p \in Pos(ValidShape(img.shape, dst)) : ValidRegion(ret, dst)[p] = 0
  /\ ValidRegion(ret, dst) = ValidRegion(ref, Neg(dst))

\* C10: the value affinitize1 stores at p is the same-positive-label predicate
\* of the pair (p, p - o), for the whole vector o, and 0 when p - o is outside.
C10_JointOffset ==
  pc \in {"affinitized1", "done"} =>
    \A p \in Pos(ret.shape) :
      LET q == <<0, p[2] - dst[1], p[3] - dst[2], p[4] - dst[3]>>
      IN  ret.val[p] = IF /\ q \in Pos(img.shape)
                          /\ img.val[p] = img.val[q]
                          /\ img.val[q] > 0
                       THEN 1 ELSE 0

----------------------------------------------------------------------------
(* The rebalancing weights of a label volume. *)

InitReb ==
  /\ pc = "start"
  /\ \E sh \in Shapes({1}) :
       /\ \E v \in Painted(sh, Labels, MaxPaintAug) \cup Stairs(sh) :
            img = [shape |-> sh, val |-> v]
       /\ \/ msk = Nil
          \/ \E m \in Painted(sh, {0, 1}, MaxPaintAug) :
               msk = [shape |-> sh, val |-> m]
  /\ base_w \in BaseWeights
  /\ rule = <<FALSE, FALSE, FALSE, FALSE>>
  /\ dst = None
  /\ aug = Nil /\ tns = Nil /\ tns0 = Nil /\ ret = Nil /\ ref = Nil
  /\ err = "none"

MaskArray == IF msk = Nil THEN Nil ELSE Own(msk)

\* ret = rebalance_class(img, msk)
RebalanceClass ==
  /\ pc = "start"
  /\ \E r \in {rebalance_class(Own(img), MaskArray)} :
         /\ ret' = IF r.err = "none" THEN Contents(r.data) ELSE Nil
         /\ err' = r.err
         /\ pc' = IF r.err = "none" THEN "multiclass" ELSE "failed"
  /\ UNCHANGED <<img, rule, dst, msk, base_w, aug, tns, tns0, ref>>

\* ret = rebalance_binary_class(img, msk, base_w)
RebalanceBinary ==
  /\ pc = "start"
  /\ \E r \in {rebalance_binary_class(Own(img), MaskArray, base_w)} :
         /\ ret' = Contents(r.data)
         /\ err' = r.err
         /\ pc' = "binary"
  /\ UNCHANGED <<img, rule, dst, msk, base_w, aug, tns, tns0, ref>>

NextReb == RebalanceClass \/ RebalanceBinary

SpecReb == InitReb /\ [][NextReb]_vars

\* The classes of the volume, the voxels of a class, and the weight the
\* result gives a class (the weight of one voxel of it).
Classes == {img.val[p] : p \in Pos(img.shape)}
VoxelsOf(l) == {p \in Pos(img.shape) : img.val[p] = l}
WeightOf(l) == ret.val[CHOOSE p \in VoxelsOf(l) : TRUE]
SameWeightInClass ==
  \A l \in Classes : \A p \in VoxelsOf(l) : ret.val[p] = WeightOf(l)

\* C6 as stated: without a mask, with two classes or more the sum over the
\* classes of weight * voxel count is 1; with one class every weight is 1/2.
C6_WeightTimesCountSumsToOne ==
  (pc = "multiclass" /\ msk = Nil) =>
    IF Cardinality(Classes) >= 2
    THEN RSum(Classes,
              [l \in Classes |->
                 RMul(WeightOf(l), <<Cardinality(VoxelsOf(l)), 1>>)]) = <<1, 1>>
    ELSE \A p \in Pos(img.shape) : ret.val[p] = <<1, 2>>

\* C6 as amended: without a mask, with two classes or more the voxels of a
\* class share one weight and the sum over the classes of that weight is 1;
\* with one class every weight is 1/2.
C6_WeightsSumToOne ==
  (pc = "multiclass" /\ msk = Nil) =>
    IF Cardinality(Classes) >= 2
    THEN /\ SameWeightInClass
         /\ RSum(Classes, [l \in Classes |-> WeightOf(l)]) = <<1, 1>>
    ELSE \A p \in Pos(img.shape) : ret.val[p] = <<1, 2>>

C6_Witness ==
  /\ pc = "multiclass" /\ msk = Nil
  /\ Cardinality(Classes) = 3
  /\ \E l \in Classes : Cardinality(VoxelsOf(l)) >= 3
  /\ \E l \in Classes : Cardinality(VoxelsOf(l)) = 2 /\ WeightOf(l) = <<5, 17>>
  /\ RSum(Classes, [l \in Classes |-> WeightOf(l)]) = <<1, 1>>

C6_WitnessSingle ==
  /\ pc = "multiclass" /\ msk = Nil
  /\ Cardinality(Classes) = 1
  /\ \A p \in Pos(img.shape) : ret.val[p] = <<1, 2>>

\* The voxels inside the mask (all of them without a mask), and the numbers
\* of foreground and of background voxels among them.
InMask == IF msk = Nil THEN Pos(img.shape)
          ELSE {p \in Pos(img.shape) : msk.val[p] > 0}
CountFg == Cardinality({p \in InMask : img.val[p] > 0})
CountBg == Cardinality({p \in InMask : img.val[p] = 0})

\* C7: rebalance_binary_class gives 0 outside the mask; inside it, with
\* count_fg and count_bg both positive, count_bg/(count_fg+count_bg) to the
\* foreground and count_fg/(count_fg+count_bg) to the background; and
\* base_w to every voxel inside the mask when one of the counts is 0.
C7_BinaryWeights ==
  pc = "binary" =>
    /\ err = "none"
    /\ \A p \in Pos(img.shape) :
         ret.val[p] =
           IF p \notin InMask THEN <<0, 1>>
           ELSE IF CountFg > 0 /\ CountBg > 0
                THEN IF img.val[p] > 0
                     THEN Frac(CountBg, CountFg + CountBg)
                     ELSE Frac(CountFg, CountFg + CountBg)
                ELSE base_w

C7_Witness ==
  /\ pc = "binary" /\ msk = Nil
  /\ CountFg = 3 /\ CountBg = 5
  /\ \E p \in Pos(img.shape) : img.val[p] > 0 /\ ret.val[p] = <<5, 8>>
  /\ \E p \in Pos(img.shape) : img.val[p] = 0 /\ ret.val[p] = <<3, 8>>

C7_WitnessMasked ==
  /\ pc = "binary" /\ msk # Nil
  /\ base_w = <<1, 2>>
  /\ CountBg = 0 /\ CountFg > 0
  /\ \E p \in Pos(img.shape) : p \notin InMask /\ ret.val[p] = <<0, 1>>
  /\ \E p \in InMask : ret.val[p] = <<1, 2>>

====
